---- MODULE Spec2Model ----
(***************************************************************************)
(* Token lifecycle manager of splatnet3_scraper                            *)
(* (src/splatnet3_scraper/auth/token_manager.py, utils.retry).             *)
(*                                                                         *)
(* A method of TokenManager is modelled as an operator on a context `c`,   *)
(* the record of the object's fields (tokens = _tokens, data = _data,      *)
(* nso = the NSO collaborator's cached fields, origin = _origin) together  *)
(* with the log of the external calls made so far (calls), the exception   *)
(* that is propagating (err) and the value the last call returned (ret,    *)
(* status).  A method that talks to a remote endpoint returns the SET of   *)
(* contexts it can end in, one per possible response.  An action of the    *)
(* state machine is one public operation run to completion.                *)
(***************************************************************************)
EXTENDS Integers, Sequences, FiniteSets, TLC

VARIABLES
    exists,     \* a TokenManager object has been constructed
    tokens,     \* TokenManager._tokens : kind -> Token
    data,       \* TokenManager._data   : key -> str
    nso,        \* NSO._session_token, NSO._gtoken, NSO._user_info
    origin,     \* TokenManager._origin
    now,        \* time.time(), in seconds, as a pair of limbs
    fs,         \* the file system: path -> file
    env,        \* os.environ restricted to ENV_VAR_NAMES: kind -> value
    managers,   \* the caller's variables: name -> the attributes of a TokenManager
    heap,       \* the objects those attributes refer to: address -> object
    login,      \* the NSO login helper: _state, _verifier, _version
    op,         \* the operation the last step ran
    arg,        \* its argument
    ret,        \* the value it returned
    err,        \* the exception it raised, or NoErr
    calls       \* the external calls it made, in order

vars ==
    <<exists, tokens, data, nso, origin, now, fs, env, managers, heap, login,
      op, arg, ret, err, calls>>

-----------------------------------------------------------------------------
(* Bounds of the model *)

MaxTime == 3600
TickSeconds == 3600
MaxUrls == 3
MaxRequests == 3

-----------------------------------------------------------------------------
(* constants.py (not in src/): TOKENS, TOKEN_EXPIRATIONS, ENV_VAR_NAMES *)

SESSION_TOKEN == "session_token"
GTOKEN == "gtoken"
BULLET_TOKEN == "bullet_token"
TOKENS == {SESSION_TOKEN, GTOKEN, BULLET_TOKEN}

TOKEN_EXPIRATIONS == (GTOKEN :> 3600) @@ (BULLET_TOKEN :> 7200)

\* Python's None, for the fields that hold a str or None
None == "None"
\* NSO._user_info is None
NoUserInfo == ("None" :> "None")

NoErr == "none"
ErrGtokenNoSession == "ValueError: Session token must be set before generating a gtoken."
ErrBulletNoSession == "ValueError: Session token must be set before generating a bullet token."
ErrUserInfo == "NintendoException: Unable to get user info. Gtoken may be invalid."
ErrBullet == "SplatNetException: Bullet token was unable to be generated."
ErrNotFound == "ValueError: Token of type not found."
ErrSessionNone == "ValueError: Session Token is not set."
ErrNoTokensSection == "ValueError: Config file does not have a 'tokens' section."
ErrEnvSession == "ValueError: Session token environment variable not set."
ErrKeyLanguage == "KeyError: 'language'"
ErrAttestation == "AttestationError"
ErrTextSession == "ValueError: Session token not found in text file."
ErrUnpack == "ValueError: not enough values to unpack (expected 2, got 1)"
ErrFileNotFound == "FileNotFoundError"
ErrConnection == "ConnectionError"
ErrNoTokensFound == "ValueError: No tokens found."

-----------------------------------------------------------------------------
(* Seconds as g * 10^9 + s, so that 1e10 + timestamp is representable *)

Num(n) == [g |-> n \div 1000000000, s |-> n % 1000000000]

BigAdd(a, b) ==
    [g |-> a.g + b.g + ((a.s + b.s) \div 1000000000),
     s |-> (a.s + b.s) % 1000000000]

BigSub(a, b) ==
    IF a.s >= b.s
    THEN [g |-> a.g - b.g, s |-> a.s - b.s]
    ELSE [g |-> a.g - b.g - 1, s |-> a.s + 1000000000 - b.s]

BigLeqZero(a) == a.g < 0 \/ (a.g = 0 /\ a.s = 0)

BigLess(a, b) == a.g < b.g \/ (a.g = b.g /\ a.s < b.s)

-----------------------------------------------------------------------------
(* class Token *)

\* 1e10, the expiration of a kind that TOKEN_EXPIRATIONS does not list
DefaultExpiration == [g |-> 10, s |-> 0]

\* every kind without an entry gets one hour
TokenExpiration_hour(token_type) ==
    IF token_type \in DOMAIN TOKEN_EXPIRATIONS
    THEN Num(TOKEN_EXPIRATIONS[token_type])
    ELSE Num(3600)

\* TOKEN_EXPIRATIONS.get(token_type, 1e10)
TokenExpiration(token_type) ==
    IF token_type \in DOMAIN TOKEN_EXPIRATIONS
    THEN Num(TOKEN_EXPIRATIONS[token_type])
    ELSE DefaultExpiration

Token(token, token_type, timestamp) ==
    [token |-> token,
     token_type |-> token_type,
     timestamp |-> timestamp,
     expiration |-> BigAdd(TokenExpiration(token_type), timestamp)]

is_valid(t) == (t.token # None) /\ (t.token # "")

time_left(t) == BigSub(t.expiration, now)

\* time_left < 0
is_expired_strict(t) == time_left(t).g < 0

is_expired(t) == BigLeqZero(time_left(t))

\* what an operation hands back: None, a str, a Token or a bool
NoToken == Token(None, None, Num(0))
RetNone == [type |-> "None", str |-> None, token |-> NoToken, bool |-> FALSE]
RetStr(v) == [type |-> "str", str |-> v, token |-> NoToken, bool |-> FALSE]
RetToken(t) == [type |-> "Token", str |-> None, token |-> t, bool |-> FALSE]
RetBool(b) == [type |-> "bool", str |-> None, token |-> NoToken, bool |-> b]

-----------------------------------------------------------------------------
(* Contexts *)

Ctx(t, d, n, o) ==
    [tokens |-> t, data |-> d, nso |-> n, origin |-> o,
     calls |-> <<>>, err |-> NoErr, ret |-> "", status |-> 0]

\* TokenManager.__init__ with a fresh NSO: no tokens, no data, no _origin
NewManager ==
    Ctx(<<>>, <<>>,
        [session_token |-> None, gtoken |-> None, user_info |-> NoUserInfo],
        [origin |-> None, data |-> None])

Raise(c, e) == [c EXCEPT !.err = e]

\* the contexts of S in which the next statement runs, and those that carry
\* an exception past it
Ok(S) == { c \in S : c.err = NoErr }
Failed(S) == { c \in S : c.err # NoErr }

Call(fn, a, r, st, c) ==
    [fn |-> fn, arg |-> a, ret |-> r, status |-> st, tokens |-> c.tokens]

-----------------------------------------------------------------------------
(* The remote endpoints, as the NSO collaborator and requests expose them  *)

GoodUserInfo == ("country" :> "US") @@ ("language" :> "en-US")
BadUserInfo == ("id" :> "1")

\* a value the endpoint has not handed out as the one currently held
Fresh(a, b, held) == IF held = a THEN b ELSE a

\* NSO.get_gtoken(session_token): the attestation fails, or a gtoken comes
\* back and NSO._user_info holds the user-info response
nso_get_gtoken(c, session_token) ==
    LET held == IF GTOKEN \in DOMAIN c.tokens THEN c.tokens[GTOKEN].token ELSE None
        g == Fresh("g1", "g2", held)
    IN  { [c EXCEPT !.err = ErrAttestation,
                    !.calls = Append(@, Call("get_gtoken", session_token, "", 0, c))] }
        \cup
        { [c EXCEPT !.ret = g,
                    !.nso.user_info = ui,
                    !.calls = Append(@, Call("get_gtoken", session_token, g, 0, c))]
          : ui \in {GoodUserInfo, BadUserInfo} }

\* NSO.get_bullet_token(gtoken, user_info): a bullet token, or an empty value
nso_get_bullet_token(c, gtoken) ==
    LET held == IF BULLET_TOKEN \in DOMAIN c.tokens
                THEN c.tokens[BULLET_TOKEN].token ELSE None
    IN  { [c EXCEPT !.ret = b,
                    !.calls = Append(@, Call("get_bullet_token", gtoken, b, 0, c))]
          : b \in {"", Fresh("b1", "b2", held)} }

\* requests.post(GRAPH_QL_REFERENCE_URL, ...): the liveness probe
requests_post(c, bullet_token) ==
    { [c EXCEPT !.status = st,
                !.calls = Append(@, Call("post", bullet_token, "", st, c))]
      : st \in {200, 401} }

\* one request to the attestation endpoint at url: a response that carries
\* the attestation value, or a failure
f_token_request(c, url) ==
    { [c EXCEPT !.ret = "f1", !.status = 200,
                !.calls = Append(@, Call("get_f_token", url, "f1", 200, c))],
      [c EXCEPT !.ret = "", !.status = 500,
                !.calls = Append(@, Call("get_f_token", url, "", 500, c))] }

\* the candidates from the i-th on: the first response that carries a value
\* is accepted; past the end of the list the attestation has failed
RECURSIVE attest_from(_, _, _)
attest_from(c, f_token_url, i) ==
    IF i > Len(f_token_url)
    THEN {Raise(c, ErrAttestation)}
    ELSE UNION { IF r.status = 200 THEN {r} ELSE attest_from(r, f_token_url, i + 1)
                 : r \in f_token_request(c, f_token_url[i]) }

\* the first candidate alone is tried
attest_first_only(c, f_token_url) == attest_from(c, <<f_token_url[1]>>, 1)

\* the attestation step over the manager's list of endpoint URLs
attest(c, f_token_url) == attest_from(c, f_token_url, 1)

-----------------------------------------------------------------------------
(* class TokenManager *)

\* the data argument is dropped
flag_origin_no_data(c, o, d) == [c EXCEPT !.origin = [origin |-> o, data |-> None]]

flag_origin(c, o, d) == [c EXCEPT !.origin = [origin |-> o, data |-> d]]

\* the token is stamped with the epoch, not with the time of the call
add_token_epoch(c, token, token_type) ==
    LET token_obj == Token(token, token_type, Num(0))
        c1 == IF token_obj.token_type = GTOKEN
              THEN [c EXCEPT !.nso.gtoken = token_obj.token]
              ELSE c
    IN  [c1 EXCEPT !.tokens = (token_type :> token_obj) @@ c.tokens]

\* the Token object the keychain already holds is given the new value
add_token_in_place(c, token, token_type) ==
    LET token_obj == IF token_type \in DOMAIN c.tokens
                     THEN [c.tokens[token_type] EXCEPT !.token = token]
                     ELSE Token(token, token_type, now)
        c1 == IF token_obj.token_type = GTOKEN
              THEN [c EXCEPT !.nso.gtoken = token_obj.token]
              ELSE c
    IN  [c1 EXCEPT !.tokens = (token_type :> token_obj) @@ c.tokens]

\* an entry the keychain already holds is kept
add_token_keep_first(c, token, token_type) ==
    LET token_obj == Token(token, token_type, now)
        c1 == IF token_obj.token_type = GTOKEN
              THEN [c EXCEPT !.nso.gtoken = token_obj.token]
              ELSE c
    IN  [c1 EXCEPT !.tokens = c.tokens @@ (token_type :> token_obj)]

\* add_token(token: str, token_type), timestamp = time.time()
add_token(c, token, token_type) ==
    LET token_obj == Token(token, token_type, now)
        c1 == IF token_obj.token_type = GTOKEN
              THEN [c EXCEPT !.nso.gtoken = token_obj.token]
              ELSE c
    IN  [c1 EXCEPT !.tokens = (token_type :> token_obj) @@ c.tokens]

\* the outcome of a call that returns a value
Return(v) == [err |-> NoErr, ret |-> v]
RaiseError(e) == [err |-> e, ret |-> RetNone]

\* full_token is ignored: the token string is returned
get_value_only(c, token_type, full_token) ==
    IF token_type \notin DOMAIN c.tokens
    THEN RaiseError(ErrNotFound)
    ELSE Return(RetStr(c.tokens[token_type].token))

\* get(token_type, full_token=False)
get(c, token_type, full_token) ==
    IF token_type \notin DOMAIN c.tokens
    THEN RaiseError(ErrNotFound)
    ELSE LET token_obj == c.tokens[token_type]
         IN  IF full_token
             THEN Return(RetToken(token_obj))
             ELSE Return(RetStr(token_obj.token))

\* TokenManager.get_token of auth/tokens/manager.py (not in src/), as
\* test_get_token pins it down: keychain.get(name, full_token=True)
get_token(c, name) == get(c, name, TRUE)

add_session_token(c, token) ==
    [add_token(c, token, SESSION_TOKEN) EXCEPT !.nso.session_token = token]

\* lines 271-280 of generate_gtoken: capture country and language
capture_user_info(c) ==
    LET user_info == c.nso.user_info
    IN  IF user_info # NoUserInfo
           /\ "country" \in DOMAIN user_info
           /\ "language" \in DOMAIN user_info
        THEN [c EXCEPT !.data = ("country" :> user_info["country"])
                                @@ ("language" :> user_info["language"])
                                @@ c.data]
        ELSE Raise(c, ErrUserInfo)

\* the bullet token minted from the old gtoken is dropped with it
generate_gtoken_drop_bullet(c) ==
    IF SESSION_TOKEN \notin DOMAIN c.tokens
    THEN {Raise(c, ErrGtokenNoSession)}
    ELSE { IF r.err # NoErr THEN r
           ELSE LET c1 == add_token(r, r.ret, GTOKEN)
                IN  capture_user_info(
                        [c1 EXCEPT !.tokens =
                            [k \in DOMAIN c1.tokens \ {BULLET_TOKEN} |-> c1.tokens[k]]])
           : r \in nso_get_gtoken(c, c.nso.session_token) }

generate_gtoken(c) ==
    IF SESSION_TOKEN \notin DOMAIN c.tokens
    THEN {Raise(c, ErrGtokenNoSession)}
    ELSE { IF r.err # NoErr THEN r
           ELSE capture_user_info(add_token(r, r.ret, GTOKEN))
           : r \in nso_get_gtoken(c, c.nso.session_token) }

\* an empty value is rejected before it is stored: the keychain is as it was
store_bullet_token_checked_first(r) ==
    IF r.ret = "" THEN Raise(r, ErrBullet) ELSE add_token(r, r.ret, BULLET_TOKEN)

\* the bullet token is stored whatever its value: no SplatNetException
store_bullet_token_unchecked(r) == add_token(r, r.ret, BULLET_TOKEN)

\* lines 299-308 of generate_bullet_token, after one get_bullet_token response
store_bullet_token(r) ==
    LET c1 == add_token(r, r.ret, BULLET_TOKEN)
        bullet == c1.tokens[BULLET_TOKEN]
    IN  IF ~is_valid(bullet) THEN Raise(c1, ErrBullet) ELSE c1

mint_bullet_token(c) ==
    { store_bullet_token(r) : r \in nso_get_bullet_token(c, c.nso.gtoken) }

\* the gtoken is generated on every attempt, whatever the keychain holds
generate_bullet_token_func_always(c) ==
    IF SESSION_TOKEN \notin DOMAIN c.tokens
    THEN {Raise(c, ErrBulletNoSession)}
    ELSE LET S == generate_gtoken(c)
         IN  Failed(S) \cup UNION { mint_bullet_token(x) : x \in Ok(S) }

\* the undecorated body of generate_bullet_token
generate_bullet_token_func(c) ==
    IF SESSION_TOKEN \notin DOMAIN c.tokens
    THEN {Raise(c, ErrBulletNoSession)}
    ELSE LET S == IF (GTOKEN \notin DOMAIN c.tokens) \/ (c.nso.user_info = NoUserInfo)
                  THEN generate_gtoken(c)
                  ELSE {c}
         IN  Failed(S) \cup UNION { mint_bullet_token(x) : x \in Ok(S) }

\* every exception is caught: retry(times) with the default exceptions=Exception
RECURSIVE retry_wrapper_any(_, _, _)
retry_wrapper_any(i, times, c) ==
    IF i < times
    THEN UNION { IF r.err # NoErr
                 THEN retry_wrapper_any(i + 1, times, [r EXCEPT !.err = NoErr])
                 ELSE {r}
                 : r \in generate_bullet_token_func(c) }
    ELSE generate_bullet_token_func(c)

\* utils.retry's wrapper around generate_bullet_token_func, from attempt i
RECURSIVE retry_wrapper(_, _, _)
retry_wrapper(i, times, c) ==
    IF i < times
    THEN UNION { IF r.err = ErrBullet
                 THEN retry_wrapper(i + 1, times, [r EXCEPT !.err = NoErr])
                 ELSE {r}
                 : r \in generate_bullet_token_func(c) }
    ELSE generate_bullet_token_func(c)

\* @retry(times=2, ...)
generate_bullet_token_times2(c) == retry_wrapper(0, 2, c)

\* @retry(times=1, exceptions=SplatNetException)
generate_bullet_token(c) == retry_wrapper(0, 1, c)

\* the two derivations in the other order
generate_all_tokens_swapped(c) ==
    LET S == generate_bullet_token(c)
    IN  Failed(S) \cup UNION { generate_gtoken(x) : x \in Ok(S) }

generate_all_tokens(c) ==
    LET S == generate_gtoken(c)
    IN  Failed(S) \cup UNION { generate_bullet_token(x) : x \in Ok(S) }

\* the ValueError of get is not caught
token_is_valid_no_except(c, token_type) ==
    LET got == get(c, token_type, TRUE)
    IN  IF got.err # NoErr
        THEN got
        ELSE Return(RetBool(is_valid(got.ret.token)))

\* lines 489-493: try get(token_type, full_token=True) except ValueError
token_is_valid_try(c, token_type) ==
    LET got == get(c, token_type, TRUE)
    IN  IF got.err = ErrNotFound
        THEN Return(RetBool(FALSE))
        ELSE Return(RetBool(is_valid(got.ret.token)))

\* the bool token_is_valid returns
token_is_valid(c, token_type) == token_is_valid_try(c, token_type).ret.bool

\* the probe is sent again after the tokens were regenerated
probe_and_regenerate_reprobe(c) ==
    IF "language" \notin DOMAIN c.data
    THEN {Raise(c, ErrKeyLanguage)}
    ELSE UNION { IF response.status # 200
                 THEN LET S == generate_all_tokens(response)
                      IN  Failed(S) \cup
                          UNION { requests_post(x, x.tokens[BULLET_TOKEN].token)
                                  : x \in Ok(S) }
                 ELSE {response}
                 : response \in requests_post(c, c.tokens[BULLET_TOKEN].token) }

\* lines 514-525 of test_tokens
probe_and_regenerate(c) ==
    IF "language" \notin DOMAIN c.data
    THEN {Raise(c, ErrKeyLanguage)}
    ELSE UNION { IF response.status # 200
                 THEN generate_all_tokens(response)
                 ELSE {response}
                 : response \in requests_post(c, c.tokens[BULLET_TOKEN].token) }

test_tokens(c) ==
    IF SESSION_TOKEN \notin DOMAIN c.tokens
    THEN {Raise(c, ErrNotFound)}
    ELSE IF c.tokens[SESSION_TOKEN].token = None
    THEN {Raise(c, ErrSessionNone)}
    ELSE LET S1 == IF ~token_is_valid(c, GTOKEN) THEN generate_gtoken(c) ELSE {c}
             S2 == Failed(S1) \cup
                   UNION { IF ~token_is_valid(x, BULLET_TOKEN)
                           THEN generate_bullet_token(x)
                           ELSE {x}
                           : x \in Ok(S1) }
         IN  Failed(S2) \cup UNION { probe_and_regenerate(x) : x \in Ok(S2) }

\* the session token is added to the manager at hand, not to a new one
from_session_token_same_manager(session_token) ==
    flag_origin(add_session_token(Ctx(tokens, data, nso, origin), session_token),
                "session_token", None)

from_session_token(session_token) ==
    flag_origin(add_session_token(NewManager, session_token), "session_token", None)

-----------------------------------------------------------------------------
(* class NSO of s3s_express: the login ceremony *)

\* what os.urandom can return, and its base64.urlsafe_b64encode
RandomBytes == {"r1", "r2"}
urlsafe_b64encode(b) ==
    CASE b = "r1" -> "cjE="
      [] b = "r2" -> "cjI="
      [] b = "sha256(cjE)" -> "aDE="
      [] b = "sha256(cjI)" -> "aDI="
      [] b = "sha256(cjE=)" -> "aDM="
      [] b = "sha256(cjI=)" -> "aDQ="

\* bytes.replace(b"=", b"")
strip_padding(v) ==
    CASE v = "cjE=" -> "cjE"
      [] v = "cjI=" -> "cjI"
      [] v = "aDE=" -> "aDE"
      [] v = "aDI=" -> "aDI"
      [] v = "aDM=" -> "aDM"
      [] v = "aDQ=" -> "aDQ"

\* hashlib.sha256().update(v).digest()
sha256(v) ==
    CASE v = "cjE" -> "sha256(cjE)"
      [] v = "cjI" -> "sha256(cjI)"
      [] v = "cjE=" -> "sha256(cjE=)"
      [] v = "cjI=" -> "sha256(cjI=)"

\* the S256 code challenge of lines 123-125
code_challenge(verifier) == strip_padding(urlsafe_b64encode(sha256(verifier)))

\* a helper at work: the object, the requests its session has sent, the error
LoginCtx(l, log) == [login |-> l, log |-> log, err |-> NoErr]

generate_new_state == { urlsafe_b64encode(r) : r \in RandomBytes }

generate_new_verifier == { strip_padding(urlsafe_b64encode(r)) : r \in RandomBytes }

\* the property state: generated on the first read
NSO_state(c) ==
    IF c.login.state = None
    THEN { [c EXCEPT !.login.state = v] : v \in generate_new_state }
    ELSE {c}

\* a new verifier is generated on every read
NSO_verifier_uncached(c) ==
    { [c EXCEPT !.login.verifier = v] : v \in generate_new_verifier }

\* the property verifier: generated on the first read
NSO_verifier(c) ==
    IF c.login.verifier = None
    THEN { [c EXCEPT !.login.verifier = v] : v \in generate_new_verifier }
    ELSE {c}

\* a request sent through self.session: it is answered, or it raises
Request(fn, st, challenge, verifier, code, status) ==
    [fn |-> fn, state |-> st, challenge |-> challenge, verifier |-> verifier,
     code |-> code, status |-> status]

session_send(c, request) ==
    { [c EXCEPT !.log = Append(@, [request EXCEPT !.status = 200])],
      [c EXCEPT !.log = Append(@, [request EXCEPT !.status = 0]),
                !.err = ErrConnection] }

\* the property version: get_version() on the first read
NSO_version(c) ==
    IF c.login.version = None
    THEN { IF r.err # NoErr THEN r ELSE [r EXCEPT !.login.version = "2.4.0"]
           : r \in session_send(c, Request("get_version", None, None, None, None, 0)) }
    ELSE {c}

\* generate_login_url(user_agent)
generate_login_url(c) ==
    UNION { UNION { session_send(c2, Request("authorize", c2.login.state,
                                             code_challenge(c1.login.verifier),
                                             None, None, 0))
                    : c2 \in NSO_state(c1) }
            : c1 \in NSO_verifier(c) }

\* get_session_token(session_token_code)
get_session_token(c, session_token_code) ==
    LET S == NSO_version(c)
    IN  Failed(S) \cup
        UNION { UNION { session_send(c2, Request("session_token", None, None,
                                                 c2.login.verifier,
                                                 session_token_code, 0))
                        : c2 \in NSO_verifier(c1) }
                : c1 \in Ok(S) }

-----------------------------------------------------------------------------
(* Objects: the attributes of a TokenManager refer to objects on the heap *)

\* NSO.new_instance(): a new NSO object around a new requests.Session
NSO_new_instance(h) ==
    [heap |-> Append(h, NewManager.nso), ref |-> Len(h) + 1]

\* the two dicts are made once and every manager refers to them
TokenManager_init_shared(h) ==
    LET n == NSO_new_instance(h)
    IN  IF h = <<>>
        THEN [heap |-> n.heap \o <<NewManager.tokens, NewManager.data>>,
              attrs |-> [nso |-> n.ref, tokens |-> n.ref + 1, data |-> n.ref + 2,
                         origin |-> 0]]
        ELSE [heap |-> n.heap,
              attrs |-> [nso |-> n.ref, tokens |-> 2, data |-> 3, origin |-> 0]]

\* TokenManager.__init__(nso=None): a new NSO, self._tokens = {}, self._data = {};
\* _origin is not set
TokenManager_init(h) ==
    LET n == NSO_new_instance(h)
    IN  [heap |-> n.heap \o <<NewManager.tokens, NewManager.data>>,
         attrs |-> [nso |-> n.ref, tokens |-> n.ref + 1, data |-> n.ref + 2,
                    origin |-> 0]]

\* the manager with attributes attrs, as its methods read it
Deref(h, attrs) ==
    Ctx(h[attrs.tokens], h[attrs.data], h[attrs.nso],
        IF attrs.origin = 0 THEN NewManager.origin ELSE h[attrs.origin])

\* a method that ended in context c: _tokens, _data and the NSO object are
\* written in place; flag_origin binds _origin to a new dict
Store(h, attrs, c) ==
    LET h1 == [h EXCEPT ![attrs.tokens] = c.tokens,
                        ![attrs.data] = c.data,
                        ![attrs.nso] = c.nso]
    IN  IF c.origin = Deref(h, attrs).origin
        THEN [heap |-> h1, attrs |-> attrs]
        ELSE [heap |-> Append(h1, c.origin),
              attrs |-> [attrs EXCEPT !.origin = Len(h1) + 1]]

-----------------------------------------------------------------------------
(* configparser.ConfigParser: a file is section -> option -> text *)

Paths == {".splatnet3_scraper", "tokens.ini"}

\* str.strip() of an option's text, as ConfigParser applies it when reading
strip(v) ==
    CASE v = " s1" -> "s1"
      [] OTHER -> v

\* config.read(path): a file that does not exist is skipped silently
config_read(path) ==
    IF path \notin DOMAIN fs
    THEN <<>>
    ELSE [s \in DOMAIN fs[path] |->
            [o \in DOMAIN fs[path][s] |-> strip(fs[path][s][o])]]

has_section(config, section) == section \in DOMAIN config

\* one turn of the loop of lines 380-386
load_option(c, option, token) ==
    LET c1 == IF option = SESSION_TOKEN
              THEN [c EXCEPT !.nso.session_token = token]
              ELSE IF option = GTOKEN
              THEN [c EXCEPT !.nso.gtoken = token]
              ELSE c
    IN  add_token(c1, token, option)

RECURSIVE load_options(_, _, _)
load_options(c, section, options) ==
    IF options = {}
    THEN c
    ELSE LET o == CHOOSE x \in options : TRUE
         IN  load_options(load_option(c, o, section[o]), section, options \ {o})

\* the liveness check is run whether or not the file has a data section
from_config_file_always_probe(path) ==
    LET config == config_read(path)
        tokenmanager == flag_origin(NewManager, "config_file", path)
    IN  IF ~has_section(config, "tokens")
        THEN {Raise(tokenmanager, ErrNoTokensSection)}
        ELSE test_tokens([load_options(tokenmanager, config["tokens"],
                                       DOMAIN config["tokens"])
                          EXCEPT !.data = IF has_section(config, "data")
                                          THEN config["data"] ELSE <<>>])

\* the origin is flagged without the path
from_config_file_no_locator(path) ==
    LET config == config_read(path)
        tokenmanager == flag_origin(NewManager, "config_file", None)
    IN  IF ~has_section(config, "tokens")
        THEN {Raise(tokenmanager, ErrNoTokensSection)}
        ELSE LET c1 == load_options(tokenmanager, config["tokens"],
                                    DOMAIN config["tokens"])
             IN  IF ~has_section(config, "data")
                 THEN generate_all_tokens(c1)
                 ELSE test_tokens([c1 EXCEPT !.data = config["data"] @@ c1.data])

from_config_file(path) ==
    LET config == config_read(path)
        tokenmanager == flag_origin(NewManager, "config_file", path)
    IN  IF ~has_section(config, "tokens")
        THEN {Raise(tokenmanager, ErrNoTokensSection)}
        ELSE LET c1 == load_options(tokenmanager, config["tokens"],
                                    DOMAIN config["tokens"])
             IN  IF ~has_section(config, "data")
                 THEN generate_all_tokens(c1)
                 ELSE test_tokens([c1 EXCEPT !.data = config["data"] @@ c1.data])

\* the data section is not written
save_config_no_data(c) ==
    ("tokens" :> [k \in DOMAIN c.tokens |-> c.tokens[k].token])
    @@ ("metadata" :> (("version" :> "__version__") @@ ("class" :> "TokenManager")))

\* the text save() writes: config.write(configfile)
save_config(c) ==
    ("tokens" :> [k \in DOMAIN c.tokens |-> c.tokens[k].token])
    @@ ("data" :> c.data)
    @@ ("metadata" :> (("version" :> "__version__") @@ ("class" :> "TokenManager")))

save_path(path) == IF path = None THEN ".splatnet3_scraper" ELSE path

\* a missing session variable is skipped like the other two
from_env_loop_no_check(environ) ==
    LET c1 == IF environ[SESSION_TOKEN] = None
              THEN NewManager
              ELSE add_token([NewManager EXCEPT !.nso.session_token = environ[SESSION_TOKEN]],
                             environ[SESSION_TOKEN], SESSION_TOKEN)
        c2 == IF environ[GTOKEN] = None
              THEN c1
              ELSE add_token([c1 EXCEPT !.nso.gtoken = environ[GTOKEN]],
                             environ[GTOKEN], GTOKEN)
    IN  IF environ[BULLET_TOKEN] = None
        THEN c2
        ELSE add_token(c2, environ[BULLET_TOKEN], BULLET_TOKEN)

\* the loop of lines 442-454, ENV_VAR_NAMES in the order session, gtoken, bullet
from_env_loop(environ) ==
    LET nso0 == NewManager
    IN  IF environ[SESSION_TOKEN] = None
        THEN Raise(nso0, ErrEnvSession)
        ELSE LET c1 == add_token([nso0 EXCEPT !.nso.session_token = environ[SESSION_TOKEN]],
                                 environ[SESSION_TOKEN], SESSION_TOKEN)
                 c2 == IF environ[GTOKEN] = None
                       THEN c1
                       ELSE add_token([c1 EXCEPT !.nso.gtoken = environ[GTOKEN]],
                                      environ[GTOKEN], GTOKEN)
             IN  IF environ[BULLET_TOKEN] = None
                 THEN c2
                 ELSE add_token(c2, environ[BULLET_TOKEN], BULLET_TOKEN)

from_env(environ) ==
    LET c == from_env_loop(environ)
    IN  IF c.err # NoErr
        THEN {c}
        ELSE test_tokens(flag_origin(c, "env", None))

\* the truth value of os.environ.get(var) in any([...])
truthy(v) == v # None /\ v # ""

\* the environment is consulted before the default file
load_env_first(environ) ==
    IF \E k \in TOKENS : truthy(environ[k])
    THEN from_env(environ)
    ELSE IF ".splatnet3_scraper" \in DOMAIN fs
    THEN from_config_file(".splatnet3_scraper")
    ELSE IF "tokens.ini" \in DOMAIN fs
    THEN from_config_file("tokens.ini")
    ELSE {Raise(NewManager, ErrNoTokensFound)}

\* a source that fails is passed over for the next applicable one
load_fall_through(environ) ==
    LET fromDefault == IF ".splatnet3_scraper" \in DOMAIN fs
                       THEN from_config_file(".splatnet3_scraper") ELSE {}
        fromEnv == IF \E k \in TOKENS : truthy(environ[k])
                   THEN from_env(environ) ELSE {}
        fromLegacy == IF "tokens.ini" \in DOMAIN fs
                      THEN from_config_file("tokens.ini") ELSE {}
    IN  IF Ok(fromDefault) # {} THEN Ok(fromDefault)
        ELSE IF Ok(fromEnv) # {} THEN Ok(fromEnv)
        ELSE IF Ok(fromLegacy) # {} THEN Ok(fromLegacy)
        ELSE {Raise(NewManager, ErrNoTokensFound)}

load(environ) ==
    IF ".splatnet3_scraper" \in DOMAIN fs
    THEN from_config_file(".splatnet3_scraper")
    ELSE IF \E k \in TOKENS : truthy(environ[k])
    THEN from_env(environ)
    ELSE IF "tokens.ini" \in DOMAIN fs
    THEN from_config_file("tokens.ini")
    ELSE {Raise(NewManager, ErrNoTokensFound)}

-----------------------------------------------------------------------------
(* The legacy text file: a JSON object, key -> str *)

TextPaths == {"config.txt", "missing.txt"}

\* str.split("|") of the acc_loc field
split_bar(v) ==
    CASE v = "en-US|US" -> <<"en-US", "US">>
      [] v = "ja-JP|JP" -> <<"ja-JP", "JP">>
      [] OTHER -> <<v>>

\* lines 418-421: language, country = data["acc_loc"].split("|")
load_acc_loc(c, json) ==
    IF "acc_loc" \notin DOMAIN json
    THEN c
    ELSE LET parts == split_bar(json["acc_loc"])
         IN  IF Len(parts) # 2
             THEN Raise(c, ErrUnpack)
             ELSE [c EXCEPT !.data = ("language" :> parts[1])
                                     @@ ("country" :> parts[2]) @@ c.data]

\* lines 416-426: the manager as it stands when test_tokens is called
load_text(path, json) ==
    LET c1 == flag_origin(add_session_token(NewManager, json["session_token"]),
                          "text_file", path)
        c2 == load_acc_loc(c1, json)
        c3 == IF "gtoken" \in DOMAIN json
              THEN add_token(c2, json["gtoken"], GTOKEN)
              ELSE c2
    IN  IF c2.err # NoErr
        THEN c2
        ELSE IF "bullettoken" \in DOMAIN json
        THEN add_token(c3, json["bullettoken"], BULLET_TOKEN)
        ELSE c3

\* the manager is returned without the liveness check
from_text_file_no_probe(path) ==
    IF path \notin DOMAIN fs
    THEN {Raise(NewManager, ErrFileNotFound)}
    ELSE IF "session_token" \notin DOMAIN fs[path]
    THEN {Raise(NewManager, ErrTextSession)}
    ELSE {load_text(path, fs[path])}

from_text_file(path) ==
    IF path \notin DOMAIN fs
    THEN {Raise(NewManager, ErrFileNotFound)}
    ELSE IF "session_token" \notin DOMAIN fs[path]
    THEN {Raise(NewManager, ErrTextSession)}
    ELSE LET c == load_text(path, fs[path])
         IN  IF c.err # NoErr THEN {c} ELSE test_tokens(c)

-----------------------------------------------------------------------------
(* The state machine *)

SessionInputs == {"", "s1", " s1"}
TokenInputs == {"", "t1"}

\* files a user wrote by hand, and the environments a process starts in
FullFile ==
    ("tokens" :> ((SESSION_TOKEN :> "s1") @@ (GTOKEN :> "g1") @@ (BULLET_TOKEN :> "b1")))
    @@ ("data" :> GoodUserInfo)
HandWritten ==
    { <<>>,
      ("options" :> ("user_agent" :> "ua")),
      ("tokens" :> (SESSION_TOKEN :> "s1")),
      ("tokens" :> ((SESSION_TOKEN :> " s1") @@ (GTOKEN :> "g1"))),
      ("tokens" :> (GTOKEN :> "g1")),
      ("tokens" :> (SESSION_TOKEN :> "s1")) @@ ("data" :> GoodUserInfo),
      ("tokens" :> ((SESSION_TOKEN :> "s1") @@ (GTOKEN :> "g1") @@ (BULLET_TOKEN :> "b1")))
      @@ ("data" :> ("country" :> "US")),
      FullFile }
Environs ==
    { [k \in TOKENS |-> IF k \in S THEN "e1" ELSE None] : S \in SUBSET TOKENS }

\* the legacy files of s3s: config.txt
FullText ==
    ("session_token" :> "s1") @@ ("acc_loc" :> "en-US|US")
    @@ ("gtoken" :> "g1") @@ ("bullettoken" :> "b1")
TextFiles ==
    { ("gtoken" :> "g1") @@ ("bullettoken" :> "b1"),
      ("session_token" :> "s1"),
      ("session_token" :> " s1") @@ ("acc_loc" :> "ja-JP|JP"),
      ("session_token" :> "s1") @@ ("acc_loc" :> "en-US"),
      ("session_token" :> "s1") @@ ("gtoken" :> "g1") @@ ("bullettoken" :> "b1"),
      ("session_token" :> "s1") @@ ("acc_loc" :> "ja-JP|JP") @@ ("bullettoken" :> "b1"),
      FullText }

\* what load() can find: a file at the default path, a file at the legacy
\* path, and the variables of the environment
DefaultFiles ==
    { ("options" :> ("user_agent" :> "ua")),
      ("tokens" :> (SESSION_TOKEN :> "s1")),
      FullFile }
LegacyFiles ==
    { ("tokens" :> (SESSION_TOKEN :> "s2")),
      ("tokens" :> ((SESSION_TOKEN :> "s2") @@ (GTOKEN :> "g1") @@ (BULLET_TOKEN :> "b1")))
      @@ ("data" :> GoodUserInfo) }
LoadEnvirons ==
    { [k \in TOKENS |-> None],
      [k \in TOKENS |-> IF k = SESSION_TOKEN THEN "e1" ELSE None],
      [k \in TOKENS |-> IF k = SESSION_TOKEN THEN "" ELSE None],
      [k \in TOKENS |-> IF k = GTOKEN THEN "e1" ELSE None],
      [k \in TOKENS |-> "e1"] }
FileSystems ==
    { d @@ l : d \in {<<>>} \cup { (".splatnet3_scraper" :> f) : f \in DefaultFiles },
               l \in {<<>>} \cup { ("tokens.ini" :> f) : f \in LegacyFiles } }

\* the instants at which the clock is read: around the expirations of a token
\* issued at 0, and around 1e10 seconds
Instants ==
    { Num(3599), Num(3600), Num(3601), Num(7200),
      [g |-> 9, s |-> 999999999], [g |-> 10, s |-> 0] }

\* what a constructor that ends with the liveness check can find: a config
\* file, a legacy text file or the variables of the environment
StaleFile ==
    ("tokens" :> ((SESSION_TOKEN :> "s1") @@ (GTOKEN :> "") @@ (BULLET_TOKEN :> "")))
    @@ ("data" :> GoodUserInfo)
FreshFileSystems ==
    { (".splatnet3_scraper" :> f) : f \in HandWritten \cup {StaleFile} }
    \cup { ("config.txt" :> f) : f \in TextFiles }

\* the lists of endpoint URLs a manager is given
FTokenUrls == {"ftoken_url_1", "ftoken_url_2", "ftoken_url_3", "ftoken_url_4"}
FTokenUrlLists ==
    { l \in UNION { [1..n -> FTokenUrls] : n \in 1..MaxUrls } :
        \A i, j \in DOMAIN l : l[i] = l[j] => i = j }

\* the arguments flag_origin is given
OriginInputs == {"test_origin", "env"}
LocatorInputs == {None, "test_data"}

\* the files and environments the constructors of one process find
OriginFileSystems ==
    { (".splatnet3_scraper" :> FullFile) @@ ("config.txt" :> FullText),
      ("tokens.ini" :> FullFile) @@ ("config.txt" :> ("session_token" :> "s1")),
      ("tokens.ini" :> ("tokens" :> (SESSION_TOKEN :> "s1"))) }
OriginEnvirons ==
    { [k \in TOKENS |-> None],
      [k \in TOKENS |-> IF k = SESSION_TOKEN THEN "e1" ELSE None] }

\* the paths save() is given: the default, and the file that was loaded
SavePaths == {None, ".splatnet3_scraper"}

This == Ctx(tokens, data, nso, origin)

\* the object's fields after an operation that ended in context c
Becomes(c) ==
    /\ tokens' = c.tokens
    /\ data' = c.data
    /\ nso' = c.nso
    /\ origin' = c.origin
    /\ ret' = RetNone
    /\ err' = c.err
    /\ calls' = c.calls

\* a factory that ended in context c: the object is returned unless it raised
Returns(c) ==
    /\ ret' = RetNone
    /\ err' = c.err
    /\ calls' = c.calls
    /\ IF c.err = NoErr
       THEN /\ exists' = TRUE
            /\ tokens' = c.tokens
            /\ data' = c.data
            /\ nso' = c.nso
            /\ origin' = c.origin
       ELSE UNCHANGED <<exists, tokens, data, nso, origin>>

InitManager ==
    /\ exists = FALSE
    /\ tokens = NewManager.tokens
    /\ data = NewManager.data
    /\ nso = NewManager.nso
    /\ origin = NewManager.origin
    /\ now = Num(0)
    /\ managers = <<>>
    /\ heap = <<>>
    /\ login = [state |-> None, verifier |-> None, version |-> None]
    /\ op = "init"
    /\ arg = None
    /\ ret = RetNone
    /\ err = NoErr
    /\ calls = <<>>

Init ==
    /\ InitManager
    /\ fs = <<>>
    /\ env = [k \in TOKENS |-> None]

\* TokenManager()
Construct ==
    /\ Becomes(NewManager)
    /\ exists' = TRUE
    /\ op' = "__init__"
    /\ arg' = None
    /\ UNCHANGED <<now, fs, env, managers, heap, login>>

FromSessionToken ==
    \E v \in SessionInputs :
        /\ Becomes(from_session_token(v))
        /\ exists' = TRUE
        /\ op' = "from_session_token"
        /\ arg' = v
        /\ UNCHANGED <<now, fs, env, managers, heap, login>>

FromConfigFile ==
    \E path \in Paths :
        \E c \in from_config_file(path) :
            /\ Returns(c)
            /\ op' = "from_config_file"
            /\ arg' = path
            /\ UNCHANGED <<now, fs, env, managers, heap, login>>

FromTextFile ==
    \E path \in TextPaths :
        \E c \in from_text_file(path) :
            /\ Returns(c)
            /\ op' = "from_text_file"
            /\ arg' = path
            /\ UNCHANGED <<now, fs, env, managers, heap, login>>

Load ==
    \E c \in load(env) :
        /\ Returns(c)
        /\ op' = "load"
        /\ arg' = None
        /\ UNCHANGED <<now, fs, env, managers, heap, login>>

FromEnv ==
    \E c \in from_env(env) :
        /\ Returns(c)
        /\ op' = "from_env"
        /\ arg' = None
        /\ UNCHANGED <<now, fs, env, managers, heap, login>>

\* add_token(v, k)
AddTokenWith(v, k) ==
    /\ exists
    /\ Becomes(add_token(This, v, k))
    /\ op' = "add_token"
    /\ arg' = k
    /\ UNCHANGED <<exists, now, fs, env, managers, heap, login>>

AddToken ==
    \E v \in TokenInputs, k \in TOKENS : AddTokenWith(v, k)

\* an operation that hands back r and leaves the manager as it was
Reads(r) ==
    /\ exists
    /\ ret' = r.ret
    /\ err' = r.err
    /\ calls' = <<>>
    /\ UNCHANGED <<exists, tokens, data, nso, origin, now, fs, env, managers, heap, login>>

\* get(k, full_token)
GetWith(k, full_token) ==
    /\ Reads(get(This, k, full_token))
    /\ op' = "get"
    /\ arg' = k

Get ==
    \E k \in TOKENS, full_token \in BOOLEAN : GetWith(k, full_token)

GetToken ==
    \E k \in TOKENS :
        /\ Reads(get_token(This, k))
        /\ op' = "get_token"
        /\ arg' = k

TokenIsValid ==
    \E k \in TOKENS :
        /\ Reads(token_is_valid_try(This, k))
        /\ op' = "token_is_valid"
        /\ arg' = k

GenerateGtoken ==
    \E c \in generate_gtoken(This) :
        /\ exists
        /\ Becomes(c)
        /\ op' = "generate_gtoken"
        /\ arg' = None
        /\ UNCHANGED <<exists, now, fs, env, managers, heap, login>>

GenerateBulletToken ==
    \E c \in generate_bullet_token(This) :
        /\ exists
        /\ Becomes(c)
        /\ op' = "generate_bullet_token"
        /\ arg' = None
        /\ UNCHANGED <<exists, now, fs, env, managers, heap, login>>

GenerateAllTokens ==
    \E c \in generate_all_tokens(This) :
        /\ exists
        /\ Becomes(c)
        /\ op' = "generate_all_tokens"
        /\ arg' = None
        /\ UNCHANGED <<exists, now, fs, env, managers, heap, login>>

TestTokens ==
    \E c \in test_tokens(This) :
        /\ exists
        /\ Becomes(c)
        /\ op' = "test_tokens"
        /\ arg' = None
        /\ UNCHANGED <<exists, now, fs, env, managers, heap, login>>

\* flag_origin(o, d)
FlagOriginWith(o, d) ==
    /\ exists
    /\ Becomes(flag_origin(This, o, d))
    /\ op' = "flag_origin"
    /\ arg' = o
    /\ UNCHANGED <<exists, now, fs, env, managers, heap, login>>

FlagOrigin ==
    \E o \in OriginInputs, d \in LocatorInputs : FlagOriginWith(o, d)

Save ==
    \E path \in SavePaths :
        /\ exists
        /\ fs' = (save_path(path) :> save_config(This)) @@ fs
        /\ op' = "save"
        /\ arg' = path
        /\ ret' = RetNone
        /\ err' = NoErr
        /\ calls' = <<>>
        /\ UNCHANGED <<exists, tokens, data, nso, origin, now, env, managers, heap, login>>

Tick ==
    /\ BigLess(now, Num(MaxTime))
    /\ now' = BigAdd(now, Num(TickSeconds))
    /\ op' = "tick"
    /\ arg' = None
    /\ ret' = RetNone
    /\ err' = NoErr
    /\ calls' = <<>>
    /\ UNCHANGED <<exists, tokens, data, nso, origin, fs, env, managers, heap, login>>

\* time.time() is read again at a later instant
Advance ==
    \E t \in Instants :
        /\ BigLess(now, t)
        /\ now' = t
        /\ op' = "advance"
        /\ arg' = None
        /\ ret' = RetNone
        /\ err' = NoErr
        /\ calls' = <<>>
        /\ UNCHANGED <<exists, tokens, data, nso, origin, fs, env, managers, heap, login>>

\* the keychain and the derivation chain of one manager
Next ==
    \/ Construct
    \/ FromSessionToken
    \/ AddToken
    \/ GenerateGtoken
    \/ GenerateBulletToken
    \/ GenerateAllTokens
    \/ TestTokens
    \/ Tick

Spec == Init /\ [][Next]_vars

\* persistence: a config file written by hand or by save
InitFile ==
    /\ InitManager
    /\ fs \in { (".splatnet3_scraper" :> f) : f \in HandWritten }
    /\ env = [k \in TOKENS |-> None]

NextFile ==
    \/ FromSessionToken
    \/ FromConfigFile
    \/ GenerateAllTokens
    \/ Save

SpecFile == InitFile /\ [][NextFile]_vars

\* a manager loaded from the environment a process starts in
InitEnv ==
    /\ InitManager
    /\ fs = <<>>
    /\ env \in Environs

NextEnv ==
    \/ FromEnv
    \/ GenerateGtoken
    \/ TestTokens

SpecEnv == InitEnv /\ [][NextEnv]_vars

\* a manager loaded from a legacy text file
InitText ==
    /\ InitManager
    /\ fs \in { ("config.txt" :> f) : f \in TextFiles }
    /\ env = [k \in TOKENS |-> None]

NextText ==
    \/ FromTextFile
    \/ GenerateBulletToken
    \/ TestTokens

SpecText == InitText /\ [][NextText]_vars

\* a manager loaded from whatever source the process finds
InitLoad ==
    /\ InitManager
    /\ fs \in FileSystems
    /\ env \in LoadEnvirons

NextLoad ==
    \/ Load
    \/ TestTokens

SpecLoad == InitLoad /\ [][NextLoad]_vars

\* tokens added to a keychain at one instant and read at a later one
NextToken ==
    \/ Construct
    \/ AddToken
    \/ Advance

SpecToken == Init /\ [][NextToken]_vars

\* the keychain of one manager, written and read back
NextKeychain ==
    \/ Construct
    \/ FromSessionToken
    \/ AddToken
    \/ Get
    \/ GetToken
    \/ TokenIsValid
    \/ Tick

SpecKeychain == Init /\ [][NextKeychain]_vars

\* attest(f_token_url)
AttestWith(f_token_url) ==
    \E c \in attest(This, f_token_url) :
        /\ exists
        /\ Becomes(c)
        /\ op' = "attest"
        /\ arg' = f_token_url[1]
        /\ UNCHANGED <<exists, now, fs, env, managers, heap, login>>

Attest ==
    \E f_token_url \in FTokenUrlLists : AttestWith(f_token_url)

\* the attestation step of a manager that holds a session token
NextAttest ==
    \/ FromSessionToken
    \/ Attest

SpecAttest == Init /\ [][NextAttest]_vars

\* the variables of a caller that holds two managers, and what it passes
ManagerNames == {"a", "b"}
SessionOf(m) == IF m = "a" THEN "s1" ELSE "s2"
\* the manager whose tokens the caller derives and refreshes
Refreshed == {"a"}

ThisOf(m) == Deref(heap, managers[m])

\* the manager m after a method of it ended in context c
Applied(m, c) ==
    LET st == Store(heap, managers[m], c)
    IN  /\ heap' = st.heap
        /\ managers' = [managers EXCEPT ![m] = st.attrs]
        /\ ret' = RetNone
        /\ err' = c.err
        /\ calls' = c.calls

\* m = TokenManager.from_session_token(s)
FromSessionTokenOn(m) ==
    /\ m \notin DOMAIN managers
    /\ LET new == TokenManager_init(heap)
           c == flag_origin(add_session_token(Deref(new.heap, new.attrs), SessionOf(m)),
                            "session_token", None)
           st == Store(new.heap, new.attrs, c)
       IN  /\ heap' = st.heap
           /\ managers' = (m :> st.attrs) @@ managers
    /\ op' = "from_session_token"
    /\ arg' = SessionOf(m)
    /\ ret' = RetNone
    /\ err' = NoErr
    /\ calls' = <<>>
    /\ UNCHANGED <<exists, tokens, data, nso, origin, now, fs, env, login>>

\* m.add_token("t1", TOKENS.GTOKEN)
AddTokenOn(m) ==
    /\ m \in DOMAIN managers
    /\ Applied(m, add_token(ThisOf(m), "t1", GTOKEN))
    /\ op' = "add_token"
    /\ arg' = GTOKEN
    /\ UNCHANGED <<exists, tokens, data, nso, origin, now, fs, env, login>>

\* m.generate_all_tokens()
GenerateAllTokensOn(m) ==
    /\ m \in DOMAIN managers \cap Refreshed
    /\ \E c \in generate_all_tokens(ThisOf(m)) : Applied(m, c)
    /\ op' = "generate_all_tokens"
    /\ arg' = None
    /\ UNCHANGED <<exists, tokens, data, nso, origin, now, fs, env, login>>

\* m.test_tokens()
TestTokensOn(m) ==
    /\ m \in DOMAIN managers \cap Refreshed
    /\ \E c \in test_tokens(ThisOf(m)) : Applied(m, c)
    /\ op' = "test_tokens"
    /\ arg' = None
    /\ UNCHANGED <<exists, tokens, data, nso, origin, now, fs, env, login>>

\* m.save()
SaveOn(m) ==
    /\ m \in DOMAIN managers
    /\ fs' = (save_path(None) :> save_config(ThisOf(m))) @@ fs
    /\ op' = "save"
    /\ arg' = None
    /\ ret' = RetNone
    /\ err' = NoErr
    /\ calls' = <<>>
    /\ UNCHANGED <<exists, tokens, data, nso, origin, now, env, managers, heap, login>>

\* a method of the manager m
OnManager(m) ==
    \/ AddTokenOn(m)
    \/ GenerateAllTokensOn(m)
    \/ TestTokensOn(m)
    \/ SaveOn(m)

FromSessionTokenTwo == \E m \in ManagerNames : FromSessionTokenOn(m)
AddTokenTwo == \E m \in ManagerNames : AddTokenOn(m)
GenerateAllTokensTwo == \E m \in Refreshed : GenerateAllTokensOn(m)
TestTokensTwo == \E m \in Refreshed : TestTokensOn(m)
SaveTwo == \E m \in ManagerNames : SaveOn(m)

\* two managers of one caller, their methods interleaved
NextTwo ==
    \/ FromSessionTokenTwo
    \/ AddTokenTwo
    \/ GenerateAllTokensTwo
    \/ TestTokensTwo
    \/ SaveTwo

SpecTwo == Init /\ [][NextTwo]_vars

\* managers built by the constructors that check liveness, and checked again
InitFresh ==
    /\ InitManager
    /\ \/ fs \in FreshFileSystems /\ env = [k \in TOKENS |-> None]
       \/ fs = <<>> /\ env \in Environs

NextFresh ==
    \/ FromConfigFile
    \/ FromTextFile
    \/ FromEnv
    \/ AddToken
    \/ TestTokens

SpecFresh == InitFresh /\ [][NextFresh]_vars

\* a manager that is loaded, saved and loaded again later
InitPersist ==
    /\ InitManager
    /\ fs = ("config.txt" :> FullText)
    /\ env = [k \in TOKENS |-> IF k = SESSION_TOKEN THEN "e1" ELSE None]

NextPersist ==
    \/ Tick
    \/ Save
    \/ FromConfigFile
    \/ FromTextFile
    \/ FromEnv

SpecPersist == InitPersist /\ [][NextPersist]_vars

\* the codes the login page hands back
SessionTokenCodes == {"code1", "code2"}

\* the helper after an operation that ended in context c
LoginBecomes(c) ==
    /\ login' = c.login
    /\ calls' = c.log
    /\ err' = c.err
    /\ ret' = RetNone
    /\ UNCHANGED <<exists, tokens, data, nso, origin, now, fs, env, managers, heap>>

\* nso.generate_login_url()
GenerateLoginUrl ==
    /\ Len(calls) < MaxRequests
    /\ \E c \in generate_login_url(LoginCtx(login, calls)) : LoginBecomes(c)
    /\ op' = "generate_login_url"
    /\ arg' = None

\* nso.get_session_token(code)
GetSessionToken ==
    /\ Len(calls) < MaxRequests
    /\ \E code \in SessionTokenCodes :
          /\ \E c \in get_session_token(LoginCtx(login, calls), code) : LoginBecomes(c)
          /\ arg' = code
    /\ op' = "get_session_token"

\* one NSO login helper; calls holds every request its session has sent
NextLogin ==
    \/ GenerateLoginUrl
    \/ GetSessionToken

SpecLogin == Init /\ [][NextLogin]_vars

\* managers built from every source, flagged and saved
InitOrigin ==
    /\ InitManager
    /\ fs \in OriginFileSystems
    /\ env \in OriginEnvirons

NextOrigin ==
    \/ FromSessionToken
    \/ FromConfigFile
    \/ FromTextFile
    \/ FromEnv
    \/ Load
    \/ FlagOrigin
    \/ Save

SpecOrigin == InitOrigin /\ [][NextOrigin]_vars

-----------------------------------------------------------------------------
(* Properties *)

IsBullet(x) == x.fn = "get_bullet_token"
IsGtoken(x) == x.fn = "get_gtoken"
IsPost(x) == x.fn = "post"

BulletCalls(log) == SelectSeq(log, IsBullet)
GtokenCalls(log) == SelectSeq(log, IsGtoken)
PostCalls(log) == SelectSeq(log, IsPost)

\* the errors a failed Account derivation raises
AccountErrors == {ErrAttestation, ErrUserInfo}

\* C1: one generate_bullet_token makes at most two get_bullet_token calls; a
\* second one exactly when the first returned an empty value; after two calls
\* it succeeds if the second value is non-empty and raises SplatNetException
\* if it is empty too.
C1_RetryExactlyOnce ==
    op = "generate_bullet_token" =>
        LET B == BulletCalls(calls)
        IN  /\ Len(B) <= 2
            /\ (Len(B) >= 1 /\ B[1].ret = "") => Len(B) = 2
            /\ Len(B) = 2 => B[1].ret = ""
            /\ (Len(B) = 2 /\ B[2].ret # "") => err = NoErr
            /\ (Len(B) = 2 /\ B[2].ret = "") => err = ErrBullet
            /\ err = ErrBullet => Len(B) = 2

C1_Witness ==
    /\ op = "generate_bullet_token"
    /\ Len(BulletCalls(calls)) = 2
    /\ BulletCalls(calls)[1].ret = ""
    /\ BulletCalls(calls)[2].ret # ""
    /\ err = NoErr

\* C2: generate_bullet_token on a manager with a session token and no gtoken
\* calls get_gtoken exactly once, first; when that derivation succeeds every
\* later call (one, or two on a retry) is a get_bullet_token made with the
\* gtoken just derived in the keychain.
C2_AccountOnceThenAccess ==
    [][ (/\ op' = "generate_bullet_token"
         /\ SESSION_TOKEN \in DOMAIN tokens
         /\ GTOKEN \notin DOMAIN tokens)
        => /\ Len(GtokenCalls(calls')) = 1
           /\ IsGtoken(calls'[1])
           /\ err' \in AccountErrors => Len(calls') = 1
           /\ err' \notin AccountErrors =>
                /\ Len(calls') \in {2, 3}
                /\ \A i \in 2..Len(calls') :
                      /\ IsBullet(calls'[i])
                      /\ GTOKEN \in DOMAIN calls'[i].tokens
                      /\ calls'[i].tokens[GTOKEN].token = calls'[1].ret
                      /\ calls'[i].arg = calls'[1].ret ]_vars

C2_Witness ==
    /\ op = "generate_bullet_token"
    /\ Len(calls) = 3
    /\ IsGtoken(calls[1])
    /\ GTOKEN \notin DOMAIN calls[1].tokens
    /\ IsBullet(calls[2]) /\ calls[2].ret = ""
    /\ IsBullet(calls[3]) /\ calls[3].ret # ""
    /\ err = NoErr

\* C3: get_bullet_token is never called while the keychain's gtoken is absent
\* or empty, and get_gtoken is never called while the keychain's session
\* token is absent or empty.
C3_OrderInvariant ==
    \A i \in DOMAIN calls :
        /\ IsBullet(calls[i]) =>
              /\ GTOKEN \in DOMAIN calls[i].tokens
              /\ is_valid(calls[i].tokens[GTOKEN])
        /\ IsGtoken(calls[i]) =>
              /\ SESSION_TOKEN \in DOMAIN calls[i].tokens
              /\ is_valid(calls[i].tokens[SESSION_TOKEN])

\* C4: every get_bullet_token call of a generate_bullet_token is made with a
\* gtoken in the keychain that has not expired.
C4_AccessNeverWithExpiredAccount ==
    op = "generate_bullet_token" =>
        \A i \in DOMAIN calls :
            IsBullet(calls[i]) =>
                /\ GTOKEN \in DOMAIN calls[i].tokens
                /\ ~is_expired(calls[i].tokens[GTOKEN])

\* C5: generate_gtoken and generate_bullet_token on a manager whose session
\* token is absent or empty raise the precondition ValueError, make no
\* external call and leave the keychain and the locale data as they were.
C5_PreconditionError ==
    [][ (/\ op' \in {"generate_gtoken", "generate_bullet_token"}
         /\ \/ SESSION_TOKEN \notin DOMAIN tokens
            \/ ~is_valid(tokens[SESSION_TOKEN]))
        => /\ err' \in {ErrGtokenNoSession, ErrBulletNoSession}
           /\ calls' = <<>>
           /\ tokens' = tokens
           /\ data' = data ]_vars

SameCredentials(a, b) ==
    /\ DOMAIN b = DOMAIN a
    /\ \A k \in DOMAIN a : b[k].token = strip(a[k].token)

SameData(a, b) ==
    /\ DOMAIN b = DOMAIN a
    /\ \A k \in DOMAIN a : b[k] = strip(a[k])

\* this step is from_config_file returning a manager from the file the
\* previous step saved this manager to
SaveThenLoad ==
    /\ op = "save"
    /\ op' = "from_config_file"
    /\ arg' = save_path(arg)
    /\ err' = NoErr
    /\ DOMAIN tokens # {}

C8_FreshConfigDerives ==
    op = "from_config_file" =>
        LET config == config_read(arg)
        IN  /\ (has_section(config, "tokens") /\ ~has_section(config, "data")) =>
                  /\ PostCalls(calls) = <<>>
                  /\ IF SESSION_TOKEN \in DOMAIN config["tokens"]
                     THEN /\ Len(calls) >= 1
                          /\ IsGtoken(calls[1])
                          /\ err \in AccountErrors => Len(calls) = 1
                          /\ err \notin AccountErrors =>
                                /\ Len(calls) >= 2
                                /\ \A j \in 2..Len(calls) :
                                      /\ IsBullet(calls[j])
                                      /\ calls[j].tokens[GTOKEN].token = calls[1].ret
                     ELSE err = ErrGtokenNoSession /\ calls = <<>>
            /\ (has_section(config, "tokens") /\ has_section(config, "data")) =>
                  /\ err = NoErr => Len(PostCalls(calls)) = 1
                  /\ (/\ DOMAIN config["tokens"] = TOKENS
                      /\ config["tokens"][GTOKEN] # ""
                      /\ config["tokens"][BULLET_TOKEN] # ""
                      /\ "language" \in DOMAIN config["data"])
                     => Len(calls) >= 1 /\ IsPost(calls[1])

C8_Witness ==
    /\ op = "from_config_file"
    /\ has_section(config_read(arg), "tokens")
    /\ ~has_section(config_read(arg), "data")
    /\ err = NoErr
    /\ Len(calls) = 2
    /\ IsGtoken(calls[1])
    /\ IsBullet(calls[2])

\* C9: from_config_file raises the 'tokens' section ValueError, with no
\* external call, exactly when the file has no tokens section; a returned
\* manager's origin is ("config_file", path) and its keychain holds every
\* option of the tokens section.
C9_ConfigFormat ==
    op = "from_config_file" =>
        LET config == config_read(arg)
        IN  /\ ~has_section(config, "tokens") <=> err = ErrNoTokensSection
            /\ err = ErrNoTokensSection => calls = <<>>
            /\ err = NoErr =>
                  /\ exists
                  /\ origin = [origin |-> "config_file", data |-> arg]
                  /\ DOMAIN config["tokens"] \subseteq DOMAIN tokens

C9_Witness ==
    /\ op = "from_config_file"
    /\ arg \in DOMAIN fs
    /\ "options" \in DOMAIN fs[arg]
    /\ err = ErrNoTokensSection
    /\ calls = <<>>

OnlySession(environ) ==
    /\ environ[SESSION_TOKEN] # None
    /\ environ[GTOKEN] = None
    /\ environ[BULLET_TOKEN] = None

\* C10: from_env with only the session variable set returns a manager, whose
\* origin is ("env", None), unless a derivation it runs fails: the only errors
\* are those of a get_gtoken or get_bullet_token call that went wrong.  With
\* no variable set it raises the session-variable ValueError and has made no
\* external call.
C10_FromEnv ==
    op = "from_env" =>
        /\ OnlySession(env) =>
              /\ err \in AccountErrors \cup {ErrBullet, NoErr}
              /\ err \in AccountErrors => IsGtoken(calls[Len(calls)])
              /\ err = ErrBullet =>
                    IsBullet(calls[Len(calls)]) /\ calls[Len(calls)].ret = ""
              /\ err = NoErr =>
                    /\ exists
                    /\ origin = [origin |-> "env", data |-> None]
                    /\ tokens[SESSION_TOKEN].token = env[SESSION_TOKEN]
        /\ (\A k \in TOKENS : env[k] = None) =>
              /\ err = ErrEnvSession
              /\ calls = <<>>

C10_Witness ==
    /\ op = "from_env"
    /\ OnlySession(env)
    /\ err = NoErr
    /\ origin.origin = "env"
    /\ Len(PostCalls(calls)) = 1

\* the session variable is set and the other two are unset or non-empty
SessionAndOptional(environ) ==
    /\ environ[SESSION_TOKEN] # None
    /\ \A k \in TOKENS : environ[k] # ""

\* C11: from_env with the session variable set and any subset of the gtoken
\* and bullet-token variables set to non-empty values puts exactly the given
\* values in the keychain and runs test_tokens up to the probe: it fails only
\* with the error of a derivation, and a returned manager has been probed.
C11_FromEnvProbes ==
    (op = "from_env" /\ SessionAndOptional(env)) =>
        /\ err \in AccountErrors \cup {ErrBullet, NoErr}
        /\ Len(calls) >= 1
        /\ DOMAIN calls[1].tokens = { k \in TOKENS : env[k] # None }
        /\ \A k \in DOMAIN calls[1].tokens : calls[1].tokens[k].token = env[k]
        /\ err = NoErr => Len(PostCalls(calls)) = 1

\* C12: from_text_file raises the session ValueError, with no external call,
\* exactly when the JSON object has no session_token field.  Otherwise the
\* manager it hands to test_tokens holds the session value as written and
\* the gtoken and bullettoken values when present; a returned manager has
\* origin ("text_file", path), keeps the session value, has been probed
\* exactly once, and when the probe was the only call holds the file's values
\* and the language and country of acc_loc.
C12_FromTextFile ==
    (op = "from_text_file" /\ arg \in DOMAIN fs) =>
        LET json == fs[arg]
            Has(f) == f \in DOMAIN json
        IN  /\ ~Has("session_token") <=> err = ErrTextSession
            /\ err = ErrTextSession => calls = <<>>
            /\ Len(calls) >= 1 =>
                  /\ calls[1].tokens[SESSION_TOKEN].token = json["session_token"]
                  /\ Has("gtoken") <=> GTOKEN \in DOMAIN calls[1].tokens
                  /\ Has("gtoken") => calls[1].tokens[GTOKEN].token = json["gtoken"]
                  /\ Has("bullettoken") <=> BULLET_TOKEN \in DOMAIN calls[1].tokens
                  /\ Has("bullettoken") =>
                        calls[1].tokens[BULLET_TOKEN].token = json["bullettoken"]
            /\ err = NoErr =>
                  /\ exists
                  /\ origin = [origin |-> "text_file", data |-> arg]
                  /\ tokens[SESSION_TOKEN].token = json["session_token"]
                  /\ nso.session_token = json["session_token"]
                  /\ Len(PostCalls(calls)) = 1
                  /\ (Len(calls) = 1 /\ Has("acc_loc")) =>
                        /\ tokens = calls[1].tokens
                        /\ split_bar(json["acc_loc"]) = <<data["language"], data["country"]>>

C12_Witness ==
    /\ op = "from_text_file"
    /\ arg \in DOMAIN fs
    /\ fs[arg] = FullText
    /\ err = NoErr
    /\ Len(calls) = 1
    /\ IsPost(calls[1])
    /\ tokens[GTOKEN].token = "g1"
    /\ data["language"] = "en-US"

\* the last operation ended as one of the contexts of S
EndedAsOneOf(S) ==
    \E c \in S :
        /\ c.err = err
        /\ c.calls = calls
        /\ c.err = NoErr =>
              /\ c.tokens = tokens
              /\ c.data = data
              /\ c.nso = nso
              /\ c.origin = origin

\* C13: load() behaves as from_config_file(".splatnet3_scraper") when that
\* file exists, whatever the environment and the legacy path hold; otherwise
\* as from_env() when some recognized variable has a non-empty value;
\* otherwise as from_config_file("tokens.ini") when that file exists; and it
\* raises the 'No tokens found' ValueError, with no external call, exactly
\* when none of the three applies.
C13_LoadPriority ==
    op = "load" =>
        LET hasDefault == ".splatnet3_scraper" \in DOMAIN fs
            hasEnv == \E k \in TOKENS : truthy(env[k])
            hasLegacy == "tokens.ini" \in DOMAIN fs
        IN  /\ hasDefault =>
                  /\ EndedAsOneOf(from_config_file(".splatnet3_scraper"))
                  /\ err = NoErr =>
                        origin = [origin |-> "config_file", data |-> ".splatnet3_scraper"]
            /\ (~hasDefault /\ hasEnv) =>
                  /\ EndedAsOneOf(from_env(env))
                  /\ err = NoErr => origin = [origin |-> "env", data |-> None]
            /\ (~hasDefault /\ ~hasEnv /\ hasLegacy) =>
                  /\ EndedAsOneOf(from_config_file("tokens.ini"))
                  /\ err = NoErr =>
                        origin = [origin |-> "config_file", data |-> "tokens.ini"]
            /\ err = ErrNoTokensFound <=> (~hasDefault /\ ~hasEnv /\ ~hasLegacy)
            /\ err = ErrNoTokensFound => calls = <<>>

\* the default file wins over a set session variable and a legacy file
C13_Witness ==
    /\ op = "load"
    /\ ".splatnet3_scraper" \in DOMAIN fs
    /\ "tokens.ini" \in DOMAIN fs
    /\ env[SESSION_TOKEN] = "e1"
    /\ err = NoErr
    /\ origin = [origin |-> "config_file", data |-> ".splatnet3_scraper"]
    /\ tokens[SESSION_TOKEN].token = "s1"

\* C14: from_session_token(value) returns a manager whose origin is
\* ("session_token", None) and whose keychain holds exactly one entry, the
\* session token with the given value; it raises nothing and makes no
\* external call.
C14_FromSessionToken ==
    op = "from_session_token" =>
        /\ exists
        /\ err = NoErr
        /\ calls = <<>>
        /\ origin = [origin |-> "session_token", data |-> None]
        /\ DOMAIN tokens = {SESSION_TOKEN}
        /\ tokens[SESSION_TOKEN].token = arg
        /\ tokens[SESSION_TOKEN].token_type = SESSION_TOKEN
        /\ nso.session_token = arg
        /\ nso.gtoken = None
        /\ data = <<>>

C14_Witness ==
    /\ op = "from_session_token"
    /\ arg = "s1"
    /\ DOMAIN tokens = {SESSION_TOKEN}
    /\ tokens[SESSION_TOKEN].timestamp = Num(TickSeconds)
    /\ calls = <<>>

\* the errors a failed derivation of the gtoken or the bullet token raises
DerivationErrors == AccountErrors \cup {ErrBullet}

\* C15: a constructor (load, and through it from_config_file and from_env)
\* returns only managers that hold a session token, and does not fail because
\* the gtoken or the bullet token could not be derived: such a failure shows
\* only when a later operation asks for them.
C15_FailFastThenLazy ==
    op = "load" =>
        /\ err = NoErr => (exists /\ SESSION_TOKEN \in DOMAIN tokens)
        /\ err \notin DerivationErrors

\* the time since the token was issued, and whether it has reached its ttl
Elapsed(t) == BigSub(now, t.timestamp)
ReachedTtl(t) == ~BigLess(Elapsed(t), TokenExpiration(t.token_type))

\* is_expired and time_left of every token agree with issuedAt + ttl(kind)
ExpiryArithmetic ==
    \A k \in DOMAIN tokens :
        LET t == tokens[k]
        IN  /\ t.timestamp = now => ~is_expired(t)
            /\ is_expired(t) <=> ReachedTtl(t)
            /\ BigAdd(time_left(t), now) = t.expiration
            /\ (k = GTOKEN /\ Elapsed(t) = Num(3599)) => ~is_expired(t)
            /\ (k = GTOKEN /\ Elapsed(t) = Num(3601)) => is_expired(t)
            /\ (k \in DOMAIN TOKEN_EXPIRATIONS /\ now.g = 0) =>
                  (is_expired(t) <=> now.s >= t.timestamp.s + TOKEN_EXPIRATIONS[k])

C17_SessionNeverExpires ==
    SESSION_TOKEN \in DOMAIN tokens => ~is_expired(tokens[SESSION_TOKEN])

\* C17 (amended): a session token is not expired as long as less than 1e10
\* seconds have passed since it was added, and is expired from then on.
C17_SessionExpiresAfterDefault ==
    SESSION_TOKEN \in DOMAIN tokens =>
        LET t == tokens[SESSION_TOKEN]
        IN  /\ t.expiration = BigAdd(t.timestamp, DefaultExpiration)
            /\ Elapsed(t).g < 10 => ~is_expired(t)
            /\ Elapsed(t).g >= 10 => is_expired(t)

\* a session token one second before 1e10 seconds have passed
C17_Witness ==
    /\ SESSION_TOKEN \in DOMAIN tokens
    /\ tokens[SESSION_TOKEN].timestamp = Num(0)
    /\ now = [g |-> 9, s |-> 999999999]
    /\ ~is_expired(tokens[SESSION_TOKEN])
    /\ time_left(tokens[SESSION_TOKEN]) = Num(1)

\* every entry of the keychain is stored under its own kind
OnePerKind ==
    /\ DOMAIN tokens \subseteq TOKENS
    /\ \A k \in DOMAIN tokens : tokens[k].token_type = k

\* C18: the keychain holds at most one token per kind, stored under its
\* kind; add_token(v, k) makes get(k) return v and get(k, full_token=True)
\* the token just built, whatever entry of kind k was there before, and
\* leaves the entries of the other kinds as they were.
C18_AddReplaces ==
    /\ []OnePerKind
    /\ [][ \A v \in TokenInputs, k \in TOKENS :
              AddTokenWith(v, k) =>
                  /\ get(This', k, FALSE) = Return(RetStr(v))
                  /\ get(This', k, TRUE) = Return(RetToken(Token(v, k, now)))
                  /\ DOMAIN tokens' = DOMAIN tokens \cup {k}
                  /\ \A j \in DOMAIN tokens \ {k} : tokens'[j] = tokens[j] ]_vars

\* a gtoken added over a derived one, the bullet token kept
C18_Witness ==
    /\ op = "add_token"
    /\ arg = GTOKEN
    /\ tokens[GTOKEN].token = "t1"
    /\ BULLET_TOKEN \in DOMAIN tokens
    /\ tokens[BULLET_TOKEN].token = "b1"
    /\ tokens[SESSION_TOKEN].token = "s1"

\* C19: get(k, full_token) raises the not-found ValueError exactly when the
\* keychain has no entry of kind k, and changes nothing; otherwise it returns
\* the token string, or the Token object when full_token is set.
\* get_token(k) returns the Token object, or raises that same ValueError.
C19_GetOrNotFound ==
    /\ [][ \A k \in TOKENS, full_token \in BOOLEAN :
              GetWith(k, full_token) =>
                  /\ (k \notin DOMAIN tokens) <=> (err' = ErrNotFound)
                  /\ k \notin DOMAIN tokens => ret' = RetNone
                  /\ <<tokens', data', nso', origin'>> = <<tokens, data, nso, origin>>
                  /\ k \in DOMAIN tokens =>
                        /\ err' = NoErr
                        /\ ret' = IF full_token
                                  THEN RetToken(tokens[k])
                                  ELSE RetStr(tokens[k].token) ]_vars
    /\ [](op = "get_token" =>
            IF arg \in DOMAIN tokens
            THEN err = NoErr /\ ret = RetToken(tokens[arg])
            ELSE err = ErrNotFound /\ ret = RetNone)

\* get on a keychain that holds other kinds only
C19_Witness ==
    /\ op = "get"
    /\ arg = GTOKEN
    /\ err = ErrNotFound
    /\ DOMAIN tokens = {SESSION_TOKEN, BULLET_TOKEN}

\* C20: token_is_valid(k) raises nothing and returns a bool: False when the
\* keychain has no entry of kind k or the entry's value is empty, True
\* otherwise, whether or not the token has expired.
C20_IsValidNeverRaises ==
    op = "token_is_valid" =>
        /\ err = NoErr
        /\ ret.type = "bool"
        /\ ret.bool <=> (arg \in DOMAIN tokens /\ tokens[arg].token \notin {"", None})

\* an expired gtoken with a non-empty value is valid
C20_Witness ==
    /\ op = "token_is_valid"
    /\ arg = GTOKEN
    /\ ret = RetBool(TRUE)
    /\ is_expired(tokens[GTOKEN])

\* the operations that build a manager, and the kinds of token an operation
\* on a manager adds
Constructors ==
    {"__init__", "from_session_token", "from_config_file", "from_text_file",
     "from_env", "load"}
Adds(operation, kind) ==
    \/ operation = "add_token" /\ kind = arg'
    \/ operation = "generate_gtoken" /\ kind = GTOKEN
    \/ operation \in {"generate_bullet_token", "generate_all_tokens", "test_tokens"}
       /\ kind \in {GTOKEN, BULLET_TOKEN}

\* C21: a Token in the keychain is as its constructor built it (its
\* expiration is ttl(kind) after its timestamp), and no operation on a
\* manager changes a field of it: an entry either stays the same Token or is
\* replaced, by an operation that adds that kind, with a Token built at the
\* time of the call.
C21_TokenImmutable ==
    /\ [](\A k \in DOMAIN tokens :
            tokens[k] = Token(tokens[k].token, k, tokens[k].timestamp))
    /\ [][ (exists /\ op' \notin Constructors) =>
              \A k \in DOMAIN tokens :
                  /\ k \in DOMAIN tokens'
                  /\ \/ tokens'[k] = tokens[k]
                     \/ /\ Adds(op', k)
                        /\ tokens'[k] = Token(tokens'[k].token, k, now') ]_vars

\* a gtoken derived again an hour after the first one
C21_Witness ==
    /\ op = "generate_gtoken"
    /\ err = NoErr
    /\ now = Num(TickSeconds)
    /\ tokens[GTOKEN].token = "g2"
    /\ tokens[GTOKEN].timestamp = now
    /\ tokens[SESSION_TOKEN].timestamp = Num(0)

Factories ==
    {"from_session_token", "from_config_file", "from_text_file", "from_env", "load"}

\* the origin a factory flags: its source, and the path it was given
FlaggedBy(factory) ==
    CASE factory = "from_session_token" -> {[origin |-> "session_token", data |-> None]}
      [] factory = "from_env" -> {[origin |-> "env", data |-> None]}
      [] factory = "from_config_file" -> {[origin |-> "config_file", data |-> arg]}
      [] factory = "from_text_file" -> {[origin |-> "text_file", data |-> arg]}
      [] factory = "load" ->
            {[origin |-> "env", data |-> None]}
            \cup {[origin |-> "config_file", data |-> p] : p \in Paths \cap DOMAIN fs}

\* C22: a manager returned by a factory has the origin of that factory, with
\* the path as locator when the source is a config file or a text file and
\* no locator when it is the session token or the environment; no later
\* operation but flag_origin changes the origin; flag_origin(o, d) makes the
\* origin (o, d) and changes nothing else of the manager.
C22_OriginSetOnce ==
    /\ []((op \in Factories /\ err = NoErr) =>
            /\ exists
            /\ origin \in FlaggedBy(op)
            /\ origin.origin \in {"config_file", "text_file"} => origin.data # None
            /\ origin.origin \in {"session_token", "env"} => origin.data = None)
    /\ [][ op' \notin Factories \cup {"__init__", "flag_origin"} =>
              origin' = origin ]_vars
    /\ [][ \A o \in OriginInputs, d \in LocatorInputs :
              FlagOriginWith(o, d) =>
                  /\ origin' = [origin |-> o, data |-> d]
                  /\ <<tokens', data', nso'>> = <<tokens, data, nso>> ]_vars

\* a manager loaded from the legacy path, saved since
C22_Witness ==
    /\ op = "save"
    /\ origin = [origin |-> "config_file", data |-> "tokens.ini"]
    /\ ".splatnet3_scraper" \in DOMAIN fs

\* the file the last save() wrote
Written == fs[save_path(arg)]

\* C23: save writes the keychain, the locale data and a version marker, and
\* a manager whose origin is the environment is saved without the
\* credentials section.
C23_SaveOmitsCredentials ==
    op = "save" =>
        /\ Written["data"] = data
        /\ "version" \in DOMAIN Written["metadata"]
        /\ IF origin.origin = "env"
           THEN "tokens" \notin DOMAIN Written
           ELSE Written["tokens"] = [k \in DOMAIN tokens |-> tokens[k].token]

\* the path the manager was loaded from, when it was loaded from a config file
LoadedFrom == IF origin.origin = "config_file" THEN origin.data ELSE None

\* C24: save with a path writes to that path; save without one writes to
\* the config path the manager was loaded from when there is one, and to
\* '.splatnet3_scraper' only when there is none.
C24_SaveTarget ==
    [][ op' = "save" =>
          LET target == IF arg' # None THEN arg'
                        ELSE IF LoadedFrom # None THEN LoadedFrom
                        ELSE ".splatnet3_scraper"
          IN  /\ target \in DOMAIN fs'
              /\ fs'[target] = save_config(This)
              /\ \A p \in DOMAIN fs' \ {target} : p \in DOMAIN fs /\ fs'[p] = fs[p] ]_vars

\* C25: generate_gtoken stores the gtoken and captures language and country
\* only on success; when the response lacks the user-info fields it fails
\* with NintendoException and the keychain's gtoken entry and the locale data
\* are as they were before the call.
C25_GtokenOnlyOnSuccess ==
    [][ op' = "generate_gtoken" =>
          /\ err' = NoErr =>
                /\ tokens'[GTOKEN] = Token(calls'[1].ret, GTOKEN, now)
                /\ data' = GoodUserInfo
          /\ (Len(calls') = 1 /\ calls'[1].ret # "" /\ nso'.user_info = BadUserInfo) =>
                /\ err' = ErrUserInfo
                /\ data' = data
                /\ DOMAIN tokens' = DOMAIN tokens
                /\ GTOKEN \in DOMAIN tokens => tokens'[GTOKEN] = tokens[GTOKEN] ]_vars

\* C26: whenever the keychain holds a gtoken, the NSO object's gtoken is its
\* value, and whenever it holds a session token, the NSO object's session
\* token is its value; so the gtoken is minted from the session token the
\* keychain holds.
C26_NsoInSync ==
    /\ exists =>
          /\ GTOKEN \in DOMAIN tokens => nso.gtoken = tokens[GTOKEN].token
          /\ SESSION_TOKEN \in DOMAIN tokens =>
                nso.session_token = tokens[SESSION_TOKEN].token
    /\ \A i \in DOMAIN calls :
          (calls[i].fn = "get_gtoken" /\ SESSION_TOKEN \in DOMAIN calls[i].tokens) =>
              calls[i].arg = calls[i].tokens[SESSION_TOKEN].token

Derivations == {"generate_gtoken", "generate_bullet_token", "generate_all_tokens"}
Minted == {i \in DOMAIN calls : calls[i].fn = "get_gtoken"}

\* C27: a failure of the gtoken derivation is not retried, also inside
\* generate_bullet_token: the failed get_gtoken call is the last call made,
\* no get_gtoken call precedes it directly, a derivation that ends with the
\* failure has called get_gtoken exactly once, and the error is the
\* operation's outcome.
C27_AccountFailureNotRetried ==
    /\ err \in AccountErrors =>
          LET n == Len(calls)
          IN  /\ n >= 1
              /\ calls[n].fn = "get_gtoken"
              /\ (calls[n].ret = "") <=> (err = ErrAttestation)
              /\ n > 1 => calls[n - 1].fn # "get_gtoken"
              /\ op \in Derivations => Cardinality(Minted) = 1
    /\ (op \in Derivations /\ calls # <<>> /\ calls[Len(calls)].fn = "get_gtoken"
          /\ (calls[Len(calls)].ret = "" \/ nso.user_info = BadUserInfo)) =>
              err \in AccountErrors

\* generate_bullet_token on a keychain without a gtoken, the attestation failing
C27_Witness ==
    /\ op = "generate_bullet_token"
    /\ err = ErrAttestation
    /\ Len(calls) = 1
    /\ GTOKEN \notin DOMAIN tokens

\* C28: the attestation step calls the endpoints in the order of the list;
\* it stops at the first response that carries a value and calls no later
\* endpoint; it fails with the attestation error only when every endpoint of
\* the list has been called once and has failed.
C28_AttestInOrder ==
    [][ \A f_token_url \in FTokenUrlLists :
          AttestWith(f_token_url) =>
              LET n == Len(calls')
              IN  /\ n \in 1..Len(f_token_url)
                  /\ \A i \in 1..n :
                        /\ calls'[i].fn = "get_f_token"
                        /\ calls'[i].arg = f_token_url[i]
                  /\ \A i \in 1..(n - 1) : calls'[i].status # 200
                  /\ err' \in {NoErr, ErrAttestation}
                  /\ err' = NoErr <=> calls'[n].status = 200
                  /\ err' = ErrAttestation =>
                        /\ n = Len(f_token_url)
                        /\ \A i \in 1..n : calls'[i].status # 200 ]_vars

\* the second endpoint answered after the first failed
C28_Witness ==
    /\ op = "attest"
    /\ err = NoErr
    /\ Len(calls) = 2
    /\ calls[1].arg = "ftoken_url_2" /\ calls[1].status = 500
    /\ calls[2].arg = "ftoken_url_1" /\ calls[2].status = 200

\* what the manager m holds: keychain, locale data, origin and NSO state
View(m) ==
    [tokens |-> ThisOf(m).tokens, data |-> ThisOf(m).data,
     origin |-> ThisOf(m).origin, nso |-> ThisOf(m).nso]

\* C29: two managers share no object, and a method of one manager
\* (add_token, a derivation, test_tokens, save) leaves the other manager's
\* keychain, locale data, origin and NSO state as they were.
C29_ManagersIndependent ==
    /\ [](\A m \in DOMAIN managers : \A o \in DOMAIN managers \ {m} :
            {managers[m].nso, managers[m].tokens, managers[m].data, managers[m].origin}
            \cap {managers[o].nso, managers[o].tokens, managers[o].data, managers[o].origin}
            = {})
    /\ [][ \A m \in ManagerNames :
              OnManager(m) =>
                  \A o \in DOMAIN managers \ {m} :
                      /\ o \in DOMAIN managers'
                      /\ View(o)' = View(o) ]_vars

\* manager a has derived its tokens since b was built; b holds its session
\* token alone
C29_Witness ==
    /\ DOMAIN managers = ManagerNames
    /\ op = "generate_all_tokens" /\ err = NoErr
    /\ DOMAIN View("a").tokens = TOKENS
    /\ DOMAIN View("b").tokens = {SESSION_TOKEN}
    /\ View("b").nso.gtoken = None

\* C30: generate_gtoken leaves the keychain's session and bullet-token entries
\* (value and timestamp) and the origin as they were: a bullet token held
\* before the call is still held after it.
C30_GtokenFrame ==
    [][ op' = "generate_gtoken" =>
          /\ origin' = origin
          /\ DOMAIN tokens' \ {GTOKEN} = DOMAIN tokens \ {GTOKEN}
          /\ \A k \in DOMAIN tokens \ {GTOKEN} : tokens'[k] = tokens[k]
          /\ nso'.session_token = nso.session_token ]_vars

\* a second gtoken derived an hour after the bullet token was
C30_Witness ==
    /\ op = "generate_gtoken" /\ err = NoErr
    /\ now = Num(TickSeconds)
    /\ tokens[GTOKEN].token = "g2" /\ tokens[GTOKEN].timestamp = now
    /\ BULLET_TOKEN \in DOMAIN tokens
    /\ tokens[BULLET_TOKEN].token = "b1" /\ tokens[BULLET_TOKEN].timestamp = Num(0)

Checked == {"test_tokens", "from_env", "from_config_file", "from_text_file"}

\* C31: when test_tokens, from_env, from_config_file or from_text_file ends
\* without raising, the keychain holds a session token, a gtoken and a bullet
\* token, and the bullet token's value is not empty.
C31_FreshKeychain ==
    (op \in Checked /\ err = NoErr) =>
        /\ exists
        /\ TOKENS \subseteq DOMAIN tokens
        /\ tokens[BULLET_TOKEN].token \notin {None, ""}

\* test_tokens on a keychain whose bullet token was empty: the first
\* get_bullet_token came back empty and the second did not
C31_Witness ==
    /\ op = "test_tokens" /\ err = NoErr
    /\ Len(calls) >= 2
    /\ calls[1].fn = "get_bullet_token" /\ calls[1].ret = ""
    /\ BULLET_TOKEN \in DOMAIN calls[1].tokens
    /\ calls[1].tokens[BULLET_TOKEN].token = ""
    /\ calls[2].fn = "get_bullet_token" /\ calls[2].ret # ""

\* C32: when generate_bullet_token ends with SplatNetException, the keychain
\* holds as bullet token the empty value the last get_bullet_token call
\* returned, whatever it held before, and token_is_valid(BULLET_TOKEN) is
\* False.
C32_FailedBulletNotRestored ==
    [][ (op' \in {"generate_bullet_token", "generate_all_tokens", "test_tokens"}
         /\ err' = ErrBullet) =>
            /\ calls' # <<>>
            /\ IsBullet(calls'[Len(calls')])
            /\ BULLET_TOKEN \in DOMAIN tokens'
            /\ tokens'[BULLET_TOKEN] = Token(calls'[Len(calls')].ret, BULLET_TOKEN, now)
            /\ tokens'[BULLET_TOKEN].token = ""
            /\ ~token_is_valid(This', BULLET_TOKEN) ]_vars

\* the keychain held the bullet token b1 when the derivation began
C32_Witness ==
    /\ op = "generate_bullet_token" /\ err = ErrBullet
    /\ BULLET_TOKEN \in DOMAIN calls[1].tokens
    /\ calls[1].tokens[BULLET_TOKEN].token = "b1"
    /\ tokens[BULLET_TOKEN].token = ""

Loaders == {"from_config_file", "from_env", "from_text_file"}

\* C33: every token of a manager that from_config_file, from_env or
\* from_text_file returns is stamped with the time of the load and is not
\* expired; a manager whose gtoken is expired, saved and loaded again, comes
\* back with a gtoken that is not expired, and with the same gtoken value when
\* the liveness check accepts it.
C33_LoadStampsAnew ==
    /\ []((op \in Loaders /\ err = NoErr) =>
            \A k \in DOMAIN tokens :
                /\ tokens[k].timestamp = now
                /\ ~is_expired(tokens[k]))
    /\ [][ (/\ op' = "from_config_file" /\ err' = NoErr
             /\ exists /\ GTOKEN \in DOMAIN tokens /\ is_expired(tokens[GTOKEN])
             /\ arg' \in DOMAIN fs /\ fs[arg'] = save_config(This)) =>
                /\ GTOKEN \in DOMAIN tokens'
                /\ tokens'[GTOKEN].timestamp = now
                /\ ~is_expired(tokens'[GTOKEN])
                /\ (Len(calls') = 1 /\ calls'[1].status = 200) =>
                      tokens'[GTOKEN].token = tokens[GTOKEN].token ]_vars

\* the file saved at time 0 is loaded an hour later and the probe accepts its
\* tokens
C33_Witness ==
    /\ op = "from_config_file" /\ err = NoErr
    /\ now = Num(TickSeconds)
    /\ Len(calls) = 1 /\ calls[1].status = 200
    /\ tokens[GTOKEN].token = fs[arg]["tokens"][GTOKEN]
    /\ tokens[GTOKEN].timestamp = now
    /\ ~is_expired(tokens[GTOKEN])

\* C34: load() commits to the first source that applies: with no default
\* file, a gtoken or bullet-token variable set and the session variable not
\* set, it raises the ValueError of from_env, makes no call and returns no
\* manager, also when the legacy file exists; with a default file that has no
\* tokens section it raises the ValueError of from_config_file, whatever the
\* environment and the legacy file hold.
C34_LoadCommits ==
    op = "load" =>
        LET hasDefault == ".splatnet3_scraper" \in DOMAIN fs
            hasEnv == \E k \in TOKENS : truthy(env[k])
        IN  /\ (~hasDefault /\ hasEnv /\ env[SESSION_TOKEN] = None) =>
                  /\ err = ErrEnvSession
                  /\ calls = <<>>
                  /\ ~exists
            /\ (hasDefault /\ "tokens" \notin DOMAIN fs[".splatnet3_scraper"]) =>
                  /\ err = ErrNoTokensSection
                  /\ calls = <<>>
                  /\ ~exists

\* the gtoken variable alone is set and the legacy file is complete
C34_Witness ==
    /\ op = "load"
    /\ err = ErrEnvSession
    /\ ".splatnet3_scraper" \notin DOMAIN fs
    /\ env[SESSION_TOKEN] = None /\ env[GTOKEN] = "e1"
    /\ "tokens.ini" \in DOMAIN fs
    /\ DOMAIN fs["tokens.ini"] = {"tokens", "data"}

\* C35: one test_tokens makes at most one probe, at most two get_gtoken calls
\* and at most four get_bullet_token calls; nothing is called after the probe
\* but the derivations it triggers.
C35_BoundedCalls ==
    op = "test_tokens" =>
        /\ Len(PostCalls(calls)) <= 1
        /\ Len(GtokenCalls(calls)) <= 2
        /\ Len(BulletCalls(calls)) <= 4
        /\ Len(calls) <= 7

\* both tokens derived before the probe and again after it, each bullet token
\* on the retry
C35_Witness ==
    /\ op = "test_tokens" /\ err = NoErr
    /\ Len(PostCalls(calls)) = 1
    /\ Len(GtokenCalls(calls)) = 2
    /\ Len(BulletCalls(calls)) = 4
    /\ IsPost(calls[4])

\* C36: the state and the verifier of one NSO object, once generated, stay
\* as they are; every login URL requested carries the same state and the same
\* challenge, and the verifier sent with every code exchange is the one whose
\* S256 challenge the login URLs carry, in whatever order the calls are made.
C36_PkceFixed ==
    /\ [][ /\ login.state # None => login'.state = login.state
           /\ login.verifier # None => login'.verifier = login.verifier ]_vars
    /\ [](\A i \in DOMAIN calls :
            /\ calls[i].fn = "authorize" =>
                  /\ calls[i].state = login.state
                  /\ calls[i].challenge = code_challenge(login.verifier)
            /\ calls[i].fn = "session_token" => calls[i].verifier = login.verifier
            /\ \A j \in DOMAIN calls :
                  /\ (calls[i].fn = "authorize" /\ calls[j].fn = "authorize") =>
                        /\ calls[i].state = calls[j].state
                        /\ calls[i].challenge = calls[j].challenge
                  /\ (calls[i].fn = "authorize" /\ calls[j].fn = "session_token") =>
                        calls[i].challenge = code_challenge(calls[j].verifier))

\* the code was exchanged before the login URL was requested
C36_Witness ==
    /\ Len(calls) = 3
    /\ calls[1].fn = "get_version"
    /\ calls[2].fn = "session_token" /\ calls[2].verifier = "cjI"
    /\ calls[3].fn = "authorize" /\ calls[3].challenge = "aDI"
    /\ calls[3].state = login.state /\ login.state # None

====
